---- MODULE Spec2Model ----
(***************************************************************************)
(* The Deluge Web UI client (package deluge).  src/ holds four revisions   *)
(* of the client code; the model carries all four, selected by rev:        *)
(*   "part_002"  src/unnamed/part_002  New/Login/Get, no session flag       *)
(*   "deluge"    src/deluge.go         Client.cookie flag, lazy login       *)
(*   "part_003"  src/unnamed/part_003  as deluge, byte counts, flag reset   *)
(*   "config"    src/config.go:368-651 contexts, req() with one retry       *)
(* A state is the client between two HTTP round trips; each action is one  *)
(* d.Do / d.client.Do call together with the code that runs up to the next *)
(* round trip or to the return of the public operation.                    *)
(***************************************************************************)
EXTENDS Integers, Sequences, FiniteSets, TLC

VARIABLES
    rev,       \* which revision of the client this behaviour runs
    config,    \* the Config handed to New / NewNoAuth
    op,        \* public operation in progress: "none", "New", "Login", "Get"
    pc,        \* position of the client (see the actions)
    stage,     \* within New: "login", "hosts", "status"; "" otherwise
    loop,      \* req's loop parameter (config.go:621)
    method,    \* method of the Get in progress
    params,    \* params of the Get in progress
    response,  \* req's decoded response, live across the re-login
    cookie,    \* Client.cookie
    id,        \* Deluge.id
    Version,   \* Deluge.Version
    Backends,  \* Deluge.Backends
    trace,     \* the HTTP round trips of the operation in progress (or just ended)
    loginBody, \* the body of the latest login response of this operation
    ret,       \* what the last operation returned
    entry,     \* the session as the operation in progress found it (see Begin)
    url,       \* Deluge.URL / Deluge.url (through *Config in deluge, part_003)
    auth,      \* Deluge.auth
    handed,    \* the Config as it was when the client in hand was constructed
    rewrites,  \* how many constructions have changed the caller's Config
    first,     \* url and auth of the first client constructed
    serverList, \* setVersion's servers: the hosts list as it was decoded
    unclosed   \* response bodies received whose deferred Close has not run

vars == <<rev, config, op, pc, stage, loop, method, params, response, cookie,
          id, Version, Backends, trace, loginBody, ret, entry, url, auth,
          handed, rewrites, first, serverList, unclosed>>

(***************************************************************************)
(* Bounds of the model.                                                    *)
(***************************************************************************)
MaxHosts == 2       \* longest web.get_hosts result list
MaxStatusLen == 4   \* longest web.get_host_status result list
MaxRewrites == 2    \* constructions that change the Config they are given

(***************************************************************************)
(* Revisions.                                                              *)
(***************************************************************************)
Revs == {"part_002", "deluge", "part_003", "config"}

\* revisions whose Client carries the cookie flag
HasCookie == {"deluge", "part_003"}

\* revisions that declare the sentinel errors and wrap them with %w
HasSentinels == {"deluge", "part_003", "config"}

\* revisions whose Get takes the cookie flag down when d.Do fails
HasCookieReset == {"part_003"}

\* revisions whose Get retries after a re-login (req, config.go:621)
HasRetry == {"config"}

\* revisions that have NewNoAuth
HasNoAuth == {"deluge", "part_003", "config"}

(***************************************************************************)
(* Method names.                                                           *)
(***************************************************************************)
AuthLogin == "auth.login"
GetTorrentStat == "core.get_torrent_status"
GetAllTorrents == "core.get_torrents_status"
HostStatus == "web.get_host_status"
GeHosts == "web.get_hosts"

StatusOK == 200
payloadSegments == 3

(***************************************************************************)
(* JSON values: a tag, a scalar text and a list of members.                *)
(***************************************************************************)
J(t, s, l) == [t |-> t, s |-> s, l |-> l]
JNone == J("none", "", <<>>)        \* an empty json.RawMessage
JNull == J("null", "", <<>>)
JStr(s) == J("str", s, <<>>)
JNum(s) == J("num", s, <<>>)     \* s is the decimal text of the number
JBool(s) == J("bool", s, <<>>)
JList(l) == J("list", "", l)
JMember(k, v) == J("member", k, <<v>>)   \* "k": v
JObj(members) == J("obj", "", members)

(***************************************************************************)
(* HTTP responses as d.Do returns them.                                    *)
(***************************************************************************)
Body(form, code, msg, result) ==
    [form |-> form, code |-> code, msg |-> msg, result |-> result]

Env(code, msg, result) == Body("env", code, msg, result)

\* d.Do returned an error: no response
Fail == [kind |-> "fail", status |-> 0, body |-> Body("none", 0, "", JNone)]

Http(status, body) == [kind |-> "http", status |-> status, body |-> body]

\* the Response struct; nil marks a nil *Response
Resp(code, msg, result) == [nil |-> FALSE, code |-> code, msg |-> msg, result |-> result]
ZeroResponse == Resp(0, "", JNone)
NilResponse == [nil |-> TRUE, code |-> 0, msg |-> "", result |-> JNone]

(***************************************************************************)
(* Errors: kind, the sentinel the error wraps ("" for none), and the text  *)
(* the error carries.                                                      *)
(***************************************************************************)
Err(kind, wraps, msg) == [kind |-> kind, wraps |-> wraps, msg |-> msg]
NoErr == Err("nil", "", "")

Sentinel(r, name) == IF r \in HasSentinels THEN name ELSE ""

ErrTransport(where) == Err("transport", "", where)
ErrDecode(where) == Err("decode", "", where)
ErrAuthFailed(r) == Err("auth", Sentinel(r, "ErrAuthFailed"), "authentication failed")
ErrDelugeError(r, msg) == Err("deluge", Sentinel(r, "ErrDelugeError"), msg)
ErrInvalidVersion(r) ==
    Err("version", Sentinel(r, "ErrInvalidVersion"), "invalid data returned while checking version")

(***************************************************************************)
(* Strings the code takes apart or puts together (URL, HTTPUser, HTTPPass, *)
(* the Authorization value) are sequences of one-character strings.        *)
(***************************************************************************)
\* strings.HasSuffix(s, suffix)
HasSuffix(s, suffix) ==
    /\ Len(s) >= Len(suffix)
    /\ SubSeq(s, Len(s) - Len(suffix) + 1, Len(s)) = suffix

\* strings.TrimSuffix(s, suffix)
TrimSuffix(s, suffix) ==
    IF HasSuffix(s, suffix) THEN SubSeq(s, 1, Len(s) - Len(suffix)) ELSE s

Slash == <<"/">>
JsonSuffix == <<"/", "j", "s", "o", "n">>
Colon == <<":">>
BasicPrefix == <<"B", "a", "s", "i", "c", " ">>

\* the alphabet of base64.StdEncoding
Alphabet ==
    << "A", "B", "C", "D", "E", "F", "G", "H", "I", "J", "K", "L", "M",
       "N", "O", "P", "Q", "R", "S", "T", "U", "V", "W", "X", "Y", "Z",
       "a", "b", "c", "d", "e", "f", "g", "h", "i", "j", "k", "l", "m",
       "n", "o", "p", "q", "r", "s", "t", "u", "v", "w", "x", "y", "z",
       "0", "1", "2", "3", "4", "5", "6", "7", "8", "9", "+", "/" >>

\* []byte(s): the byte of a character (letters, digits and the few signs
\* the model's credentials and header values hold)
Byte(c) ==
    CASE c = ":" -> 58
      [] c = " " -> 32
      [] c = "=" -> 61
      [] OTHER ->
           LET i == CHOOSE k \in DOMAIN Alphabet : Alphabet[k] = c
           IN  CASE i <= 26 -> 64 + i
                 [] i > 26 /\ i <= 52 -> 70 + i
                 [] i > 52 /\ i <= 62 -> i - 5
                 [] i = 63 -> 43
                 [] OTHER -> 47

RECURSIVE EncodeToString(_)
\* base64.StdEncoding.EncodeToString: three bytes to four characters, the
\* last group padded with "="
EncodeToString(s) ==
    IF Len(s) = 0 THEN <<>>
    ELSE LET b1 == Byte(s[1])
             b2 == IF Len(s) >= 2 THEN Byte(s[2]) ELSE 0
             b3 == IF Len(s) >= 3 THEN Byte(s[3]) ELSE 0
             n == b1 * 65536 + b2 * 256 + b3
             c1 == Alphabet[(n \div 262144) + 1]
             c2 == Alphabet[((n \div 4096) % 64) + 1]
             c3 == IF Len(s) >= 2 THEN Alphabet[((n \div 64) % 64) + 1] ELSE "="
             c4 == IF Len(s) >= 3 THEN Alphabet[(n % 64) + 1] ELSE "="
         IN  <<c1, c2, c3, c4>> \o EncodeToString(SubSeq(s, 4, Len(s)))

(***************************************************************************)
(* What the daemon (or the network) may answer.                            *)
(***************************************************************************)
Messages == {"Not authenticated", "Unknown method"}

Malformed == Body("malformed", 0, "", JNone)   \* not JSON
\* not JSON either, and longer than one read of a json.Decoder: the error
\* page of a proxy in front of the daemon
Page == Body("page", 0, "", JNone)
EmptyBody == Body("empty", 0, "", JNone)       \* zero bytes
NullBody == Body("null", 0, "", JNone)         \* the JSON literal null

LoginBodies ==
    { Env(0, "", JBool("true")), Env(0, "", JBool("false")),
      Env(1, "Bad password", JNull), Malformed }

LoginStatuses == {StatusOK, 204, 401}

LoginResponses ==
    {Fail} \cup {Http(StatusOK, b) : b \in LoginBodies}
           \cup {Http(s, Malformed) : s \in LoginStatuses \ {StatusOK}}

\* host tuples of web.get_hosts: [hostID, address, port, protocol]
HostTuples ==
    { JList(<<JStr("h1"), JStr("10.0.0.1"), JNum("8112"), JStr("tcp")>>),
      JList(<<JStr("h2"), JStr("10.0.0.2"), JNum("58846.5"), JStr("udp")>>),
      JList(<<JStr("h1"), JStr("10.0.0.9"), JNum("8112"), JStr("tcp")>>),
      JList(<<JNum("5"), JNum("7"), JStr("p"), JNull>>),
      JList(<<JStr("h3"), JStr("10.0.0.3"), JNum("8112")>>) }

RECURSIVE SeqsUpTo(_, _)
\* all sequences over S of length at most n
SeqsUpTo(S, n) ==
    IF n = 0 THEN {<<>>}
    ELSE LET shorter == SeqsUpTo(S, n - 1)
         IN  shorter \cup {Append(q, x) : q \in shorter, x \in S}

HostsResults ==
    {JList(l) : l \in SeqsUpTo(HostTuples, MaxHosts)} \cup {JStr("oops"), JNull}

StatusValues == {JStr("2.0.3"), JNum("7")}

StatusResults ==
    {JList(l) : l \in SeqsUpTo(StatusValues, MaxStatusLen)} \cup {JStr("oops"), JNull}

\* one torrent of core.get_torrents_status whose "move_on_completed" is v
Torrent(v) ==
    JObj(<<JMember("name", JStr("Test.Torrent")), JMember("move_on_completed", v)>>)

MoveValues == {JBool("false"), JStr("1"), JStr("Yes"), JStr("0"), JStr(""), JNum("1")}

\* results of core.get_torrents_status: torrents by id
XferResults ==
    {JObj(<<JMember("abc123", Torrent(v))>>) : v \in MoveValues}
      \cup { JObj(<<>>),
             JObj(<<JMember("abc123", Torrent(JBool("true"))),
                    JMember("def456", Torrent(JBool("false")))>>),
             JObj(<<JMember("def456", JObj(<<>>))>>),
             JObj(<<JMember("def456", JNull)>>),
             JStr("oops"), JNull }

Results(m) ==
    CASE m = GeHosts -> HostsResults
      [] m = HostStatus -> StatusResults
      [] OTHER -> {JStr("r1"), JStr("r2")}

RpcResponses(m) ==
    {Fail, Http(StatusOK, Malformed), Http(StatusOK, EmptyBody), Http(StatusOK, NullBody),
     Http(StatusOK, Page)}
      \cup {Http(StatusOK, Env(1, msg, JNull)) : msg \in Messages}
      \cup {Http(StatusOK, Env(0, "", r)) : r \in Results(m)}

\* what may answer the request of GetXfers / GetXfersCompat
XferResponses ==
    {Fail, Http(StatusOK, Malformed), Http(StatusOK, NullBody), Http(StatusOK, Page),
     Http(StatusOK, Env(1, "Not authenticated", JNull))}
      \cup {Http(StatusOK, Env(0, "", r)) : r \in XferResults}

\* what may answer the request of method m sent for operation o
Responses(o, m) == IF o = "GetXfers" THEN XferResponses ELSE RpcResponses(m)

\* the part of a response a round trip leaves in the trace: all of it but the
\* members of a list result; of a login response, the status alone (its body
\* is kept in loginBody until the next login)
Outcome(m, r) ==
    LET b == IF m = "auth.login" THEN Body("none", 0, "", JNone) ELSE r.body
    IN  [kind |-> r.kind, status |-> r.status, form |-> b.form,
         code |-> b.code, msg |-> b.msg, res |-> b.result.s]

(***************************************************************************)
(* DelReq.  Its receiver is a value (d Deluge): d.id++ increments the copy *)
(* DelReq works on, the envelope carries the copy's id, and the caller's   *)
(* Deluge keeps the id it had.                                             *)
(***************************************************************************)
\* the "id" of the envelope DelReq builds from a Deluge whose id is i
DelReqId(i) == i + 1

\* the caller's Deluge.id after DelReq has returned
DelReqKeeps(i) == i

\* DelReq never setting the header
DelReqNoAuth(a) == <<>>

\* the values of the Authorization header of the request DelReq builds from
\* a Deluge whose auth is a: if d.auth != "" { req.Header.Add(...) }
DelReqAuth(a) == IF a # <<>> THEN <<a>> ELSE <<>>

(***************************************************************************)
(* Reading the body of a response.                                         *)
(***************************************************************************)
\* io.Copy(ioutil.Discard, resp.Body) and ioutil.ReadAll(resp.Body) read
\* until the body reports its end
ReadAll(body) == "all"

\* json.NewDecoder(resp.Body).Decode(&response) reads until the first value
\* is complete or the first syntax error is met, and nothing after it
DecoderReads(body) == IF body.form = "page" THEN "part" ELSE "all"

LoginRoles == {"login", "lazy", "relogin", "relogin2"}

\* how much of the body of r revision v has read when the function that
\* received it returns: Login discards it to the end, Get of part_002 and
\* deluge reads it whole before decoding, Get of part_003 and req of config
\* hand it to a decoder
BodyRead(v, role, r) ==
    CASE r.kind = "fail" -> "none"
      [] r.kind # "fail" /\ role \in LoginRoles -> ReadAll(r.body)
      [] r.kind # "fail" /\ role \notin LoginRoles /\ v \in {"part_002", "deluge"} ->
           ReadAll(r.body)
      [] OTHER -> DecoderReads(r.body)

\* the round trip DelReq + Do leaves in the trace
RoundTrip(role, m, p, r) ==
    [role |-> role, method |-> m, id |-> DelReqId(id), params |-> p,
     url |-> url, authorization |-> DelReqAuth(auth), out |-> Outcome(m, r),
     read |-> BodyRead(rev, role, r)]

(***************************************************************************)
(* Login / LoginContext: one round trip; the status alone decides.         *)
(***************************************************************************)
\* Login judging by the envelope as well: result true and error code 0
LoginErrReadsEnvelope(v, r) ==
    IF r.kind = "fail" THEN ErrTransport("d.Do(req)")
    ELSE IF r.status # StatusOK \/ r.body.form # "env" \/ r.body.code # 0
            \/ r.body.result # JBool("true")
    THEN ErrAuthFailed(v)
    ELSE NoErr

LoginErr(v, r) ==
    IF r.kind = "fail" THEN ErrTransport("d.Do(req)")
    ELSE IF r.status # StatusOK THEN ErrAuthFailed(v)
    ELSE NoErr

\* Client.cookie after Login got r, having been ck before
LoginCookie(v, r, ck) ==
    IF v \in HasCookie /\ LoginErr(v, r) = NoErr THEN TRUE ELSE ck

(***************************************************************************)
(* Decoding the envelope in Get / req.                                     *)
(***************************************************************************)
\* Decode with the "result" member lost: the envelope decodes but Result
\* stays empty
DecodeDropsResult(v, body) ==
    IF body.form = "env"
    THEN [err |-> NoErr, response |-> Resp(body.code, body.msg, JNone)]
    ELSE [err |-> ErrDecode("json.Unmarshal(response)"), response |-> ZeroResponse]

\* [err, response]: json.Unmarshal(body, &response) / Decode(&response)
Decode(v, body) ==
    CASE body.form = "env" ->
           [err |-> NoErr, response |-> Resp(body.code, body.msg, body.result)]
      [] body.form = "null" ->
           \* part_002 and deluge decode into a **Response: null makes the
           \* pointer nil; part_003 and config decode into a *Response: no-op
           [err |-> NoErr,
            response |-> IF v \in {"part_002", "deluge"} THEN NilResponse ELSE ZeroResponse]
      [] OTHER ->
           [err |-> ErrDecode("json.Unmarshal(response)"), response |-> ZeroResponse]

(***************************************************************************)
(* setVersion, first half: the hosts list.                                 *)
(***************************************************************************)
EmptyMap == [k \in {} |-> k]

Backend(hostID, addr, prot) == [ID |-> hostID, Addr |-> addr, Prot |-> prot]

\* strconv.FormatFloat(val, 'f', 0, 64) on the numbers of the model
FormatFloat(s) ==
    CASE s = "58846.5" -> "58846"      \* rounds half to even
      [] OTHER -> s

IsStr(l, i) == i <= Len(l) /\ l[i].t = "str"
IsNum(l, i) == i <= Len(l) /\ l[i].t = "num"

\* server[i].(string) with the comma-ok form: "" when it is no string
StrOr(l, i) == IF l[i].t = "str" THEN l[i].s ELSE ""

\* whether the loop body panics on tuple l (index out of range, or an
\* unchecked type assertion)
TuplePanics(v, l) ==
    CASE v = "config" -> Len(l) < 4
      [] v = "part_002" ->
           ~(IsStr(l, 1) /\ IsStr(l, 2) /\ IsNum(l, 3) /\ IsStr(l, 4))
      [] OTHER ->
           Len(l) < 1 \/ ~(IsStr(l, 2) /\ IsNum(l, 3) /\ IsStr(l, 4))

\* the Backend the loop body builds from tuple l (which does not panic)
TupleBackend(l) ==
    Backend(StrOr(l, 1),
            StrOr(l, 2) \o ":" \o FormatFloat(IF l[3].t = "num" THEN l[3].s ELSE "0"),
            StrOr(l, 4))

RECURSIVE HostsLoopKeepsFirst(_, _, _, _, _)
\* the loop leaving alone an entry the map already holds for the hostID
HostsLoopKeepsFirst(v, servers, i, backends, serverID) ==
    IF i > Len(servers)
    THEN [panic |-> FALSE, backends |-> backends, serverID |-> serverID]
    ELSE LET l == servers[i].l
         IN  IF Len(l) < 4
             THEN [panic |-> TRUE, backends |-> backends, serverID |-> serverID]
             ELSE HostsLoopKeepsFirst(v, servers, i + 1,
                                      backends @@ (l[1].s :> [ID |-> l[1].s,
                                                              Addr |-> l[2].s \o ":" \o l[3].s,
                                                              Prot |-> l[4].s]),
                                      l[1].s)

RECURSIVE HostsLoop(_, _, _, _, _)
\* for _, server := range servers {...} from index i on
HostsLoop(v, servers, i, backends, serverID) ==
    IF i > Len(servers)
    THEN [panic |-> FALSE, backends |-> backends, serverID |-> serverID]
    ELSE LET l == servers[i].l
         IN  IF TuplePanics(v, l)
             THEN [panic |-> TRUE, backends |-> backends, serverID |-> serverID]
             ELSE HostsLoop(v, servers, i + 1,
                            (StrOr(l, 1) :> TupleBackend(l)) @@ backends,
                            StrOr(l, 1))

\* serverID starting as the id of a host
ServerIDPreset == "h1"

\* serverID before the loop: serverID := ""
ServerID == ""

\* json.Unmarshal(response.Result, &servers) fails
HostsUndecodable(result) == result.t \notin {"list", "null"}

(***************************************************************************)
(* setVersion, second half: the host status.                               *)
(***************************************************************************)
\* json.Unmarshal(response.Result, &server) fails
StatusUndecodable(result) == result.t \notin {"list", "null"}

TooShort(l) == Len(l) < payloadSegments

\* the version read at index payloadSegments-1 instead of the last index
ThirdOf(l) == l[payloadSegments]

\* server[len(server)-1]
LastOf(l) == l[Len(l)]

\* [panic, err, version] of the status half of setVersion on a decoded list
\* l, d.Version being cur before
VersionStep(v, l, cur) ==
    IF TooShort(l)
    THEN [panic |-> FALSE, err |-> ErrInvalidVersion(v), version |-> cur]
    ELSE IF LastOf(l).t = "str"
    THEN [panic |-> FALSE, err |-> NoErr, version |-> LastOf(l).s]
    ELSE IF v = "part_002"
    THEN [panic |-> TRUE, err |-> NoErr, version |-> cur]
    ELSE [panic |-> FALSE, err |-> ErrInvalidVersion(v), version |-> ""]

(***************************************************************************)
(* GetXfers / GetXfersCompat: json.Unmarshal(response.Result, &xfers) into *)
(* a map from torrent id to a pointer to XferStatus / XferStatusCompat.    *)
(* The two functions are the same code over two record types; of the       *)
(* records the model carries Name (string) and MoveOnCompleted (bool),     *)
(* which both types declare.                                               *)
(***************************************************************************)
\* a pointer to XferStatus; nil marks the nil pointer
Xfer(name, move) == [nil |-> FALSE, Name |-> name, MoveOnCompleted |-> move]
NilXfer == [nil |-> TRUE, Name |-> "", MoveOnCompleted |-> FALSE]

\* the value of member name of the object whose members are l (JNone when
\* the object has no such member)
Field(l, name) ==
    IF \E i \in DOMAIN l : l[i].s = name
    THEN l[CHOOSE i \in DOMAIN l : l[i].s = name /\ \A j \in DOMAIN l : l[j].s = name => j <= i].l[1]
    ELSE JNone

\* encoding/json storing value v into a field of type bool: [err, value]
DecodeBool(v) ==
    CASE v.t = "bool" -> [err |-> FALSE, value |-> v.s = "true"]
      [] v.t \in {"null", "none"} -> [err |-> FALSE, value |-> FALSE]
      [] OTHER -> [err |-> TRUE, value |-> FALSE]   \* UnmarshalTypeError

\* encoding/json storing value v into a field of type string: [err, value]
DecodeString(v) ==
    CASE v.t = "str" -> [err |-> FALSE, value |-> v.s]
      [] v.t \in {"null", "none"} -> [err |-> FALSE, value |-> ""]
      [] OTHER -> [err |-> TRUE, value |-> ""]

\* encoding/json storing value v into a map element (pointer to XferStatus):
\* [err, rec]
DecodeXfer(v) ==
    CASE v.t = "null" -> [err |-> FALSE, rec |-> NilXfer]
      [] v.t = "obj" ->
           LET name == DecodeString(Field(v.l, "name"))
               move == DecodeBool(Field(v.l, "move_on_completed"))
           IN  [err |-> name.err \/ move.err, rec |-> Xfer(name.value, move.value)]
      [] OTHER -> [err |-> TRUE, rec |-> Xfer("", FALSE)]

\* the map GetXfers starts from, were it to keep the torrents of the call
\* before it, whose ids were prev
KeepXfers(prev) == [k \in prev |-> NilXfer]

\* xfers := make(map[string]...)
MakeXfers(prev) == EmptyMap

\* json.Unmarshal(result, &xfers), xfers being start before: [err, m].  A
\* type error is remembered and the decoding goes on.
UnmarshalXfers(start, result) ==
    CASE result.t = "null" -> [err |-> FALSE, m |-> start]
      [] result.t = "obj" ->
           LET l == result.l
               keys == {l[i].s : i \in DOMAIN l}
               last(k) == CHOOSE i \in DOMAIN l :
                              l[i].s = k /\ \A j \in DOMAIN l : l[j].s = k => j <= i
           IN  [err |-> \E i \in DOMAIN l : DecodeXfer(l[i].l[1]).err,
                m |-> [k \in keys |-> DecodeXfer(l[last(k)].l[1]).rec] @@ start]
      [] OTHER -> [err |-> TRUE, m |-> start]    \* also an empty RawMessage

\* the map a failing GetXfers returns beside its error: the map as far as
\* it got, nil in config.go
NoXfers == [nil |-> TRUE, m |-> EmptyMap]
FailedXfers(v, m) == IF v = "config" THEN NoXfers ELSE [nil |-> FALSE, m |-> m]

\* fmt.Errorf(prefix + ": %w", e)
Wrap(prefix, e) == [e EXCEPT !.msg = prefix \o ": " \o e.msg]

\* what GetXfers returns when its Get has returned (resp, err), the call
\* before it having returned the torrent ids prev: [resp, err, xfers]
GetXfersReturn(v, resp, err, prev) ==
    IF err # NoErr
    THEN [resp |-> resp, err |-> Wrap("get(GetAllTorrents)", err),
          xfers |-> FailedXfers(v, MakeXfers(prev))]
    ELSE LET x == UnmarshalXfers(MakeXfers(prev), resp.result)
         IN  IF x.err
             THEN [resp |-> resp, err |-> ErrDecode("json.Unmarshal(xfers)"),
                   xfers |-> FailedXfers(v, x.m)]
             ELSE [resp |-> resp, err |-> NoErr, xfers |-> [nil |-> FALSE, m |-> x.m]]

(***************************************************************************)
(* Get / req: the decisions between round trips.                           *)
(***************************************************************************)
\* Get without the test of the cookie flag
NeverNeedsLogin(v, ck) == FALSE

\* Get's "if !d.cookie": whether Get logs in before it builds its request
NeedsLogin(v, ck) == v \in HasCookie /\ ~ck

\* the position Get starts at
GetEntry(v, ck) == IF NeedsLogin(v, ck) THEN "lazy" ELSE "req"

\* Get leaving the cookie flag alone when d.Do fails
CookieKeptAfterDoFails(v, ck) == ck

\* Client.cookie after d.Do failed in Get, having been ck before
CookieAfterDoFails(v, ck) == IF v = "part_003" THEN FALSE ELSE ck

\* what follows a response whose error code is not 0
AfterErrorCode(v) == IF v = "config" THEN "relogin" ELSE "return"

\* req giving up after the re-login whatever loop says
AfterReloginGivesUp(lp) == "return"

\* what follows req's successful LoginContext, by req's loop parameter
AfterRelogin(lp) == IF lp THEN "retry" ELSE "return"

\* req answering a failed LoginContext with the first response and its
\* daemon error
ReloginFailedAsDeluge(v, first_, e) ==
    [resp |-> first_, err |-> ErrDelugeError(v, first_.msg)]

\* what req returns when its LoginContext has returned e # nil, first_ being
\* the response that carried the error code: return nil, err
ReloginFailed(v, first_, e) == [resp |-> NilResponse, err |-> e]

\* the *Response Get returns beside a non-nil error raised before or while
\* decoding (config returns nil there)
FailedResponse(v) == IF v = "config" THEN NilResponse ELSE ZeroResponse

\* the params the caller passes with method m
ParamsOf(m) == IF m = GetAllTorrents THEN <<"", "">> ELSE <<"abc123">>

CallMethods == {GetAllTorrents, GetTorrentStat}

(***************************************************************************)
(* newConfig (New in part_002): the URL, the basic-auth value, the Config. *)
(***************************************************************************)
\* part_002: if !strings.HasSuffix(config.URL, "/") { config.URL += "/" };
\* config.URL += "json"
AppendJSON(u) ==
    (IF HasSuffix(u, Slash) THEN u ELSE u \o Slash) \o <<"j", "s", "o", "n">>

\* the request URL construction makes of the configured URL u
NormalizeURL(v, u) ==
    IF v = "part_002"
    THEN AppendJSON(u)
    ELSE TrimSuffix(TrimSuffix(u, JsonSuffix), Slash) \o JsonSuffix

\* the basic-auth value with the test for "no credentials" on the user alone
BasicAuthByUser(user, pass) ==
    IF user # <<>> THEN BasicPrefix \o EncodeToString(user \o Colon \o pass) ELSE <<>>

\* the basic-auth value construction makes of HTTPUser and HTTPPass
BasicAuth(user, pass) ==
    LET both == user \o Colon \o pass
    IN  IF both # Colon THEN BasicPrefix \o EncodeToString(both) ELSE <<>>

\* the Config after construction: part_002, deluge and part_003 write the
\* request URL and the header value back into the caller's Config
ConfigAfter(v, cfg) ==
    IF v = "config"
    THEN cfg
    ELSE [cfg EXCEPT !.URL = NormalizeURL(v, cfg.URL),
                     !.HTTPUser = BasicAuth(cfg.HTTPUser, cfg.HTTPPass)]

\* newConfig running the discovery whatever version the Config pins
DiscoversAlways(version) == TRUE

\* if deluge.Version = config.Version; deluge.Version == "" { setVersion }
Discovers(version) == version = ""

\* newConfig logging in whatever its login parameter says
LoginFlagAlways(o) == TRUE

\* newConfig's login parameter: New passes true, NewNoAuth false
LoginFlag(o) == o = "New"

(***************************************************************************)
(* The state machine.                                                      *)
(***************************************************************************)
Config(u, user, pass, version) ==
    [URL |-> u, Password |-> "pw", HTTPUser |-> user, HTTPPass |-> pass,
     Version |-> version]

BaseURL == <<"h">>

URLs ==
    { BaseURL, BaseURL \o Slash, BaseURL \o JsonSuffix,
      BaseURL \o JsonSuffix \o Slash }

Credentials ==
    { [user |-> <<"u">>, pass |-> <<"p">>], [user |-> <<>>, pass |-> <<"p">>] }

\* the Configs of the model: version discovery with the plain Config, the
\* URLs and the credentials with a pinned version
Configs ==
    {Config(BaseURL, <<>>, <<>>, "")}
      \cup {Config(u, <<>>, <<>>, "1.3.15") : u \in URLs}
      \cup {Config(BaseURL, c.user, c.pass, "1.3.15") : c \in Credentials}

\* what an operation other than GetXfers returns; resp is the Response of
\* Get (of the last Get, for New)
Returned(resp, err) == [resp |-> resp, err |-> err, xfers |-> NoXfers]

NoReturn == Returned(ZeroResponse, NoErr)
NoEntry == [after |-> "none", cookie |-> FALSE, keys |-> {}]

Init ==
    /\ rev \in Revs
    /\ config \in Configs
    /\ op = "none"
    /\ pc = "init"
    /\ stage = ""
    /\ loop = TRUE
    /\ method = ""
    /\ params = <<>>
    /\ response = ZeroResponse
    /\ cookie = FALSE
    /\ id = 0
    /\ Version = ""
    /\ Backends = EmptyMap
    /\ trace = <<>>
    /\ loginBody = Body("none", 0, "", JNone)
    /\ ret = NoReturn
    /\ entry = NoEntry
    /\ url = <<>>
    /\ auth = <<>>
    /\ handed = config
    /\ rewrites = 0
    /\ first = [url |-> <<>>, auth |-> <<>>]
    /\ serverList = <<>>
    /\ unclosed = 0

\* the control state that follows Get returning (resp, err) with the cookie
\* flag at ck: the caller of Get resumes (the caller of the public Get, or
\* setVersion inside New)
AfterGet(resp, err, ck) ==
    LET done(e) == [pc |-> "idle", stage |-> "", method |-> method, params |-> params,
                    Version |-> Version, Backends |-> Backends, servers |-> serverList,
                    ret |-> Returned(resp, e)]
    IN  CASE op = "Get" -> done(err)
          [] op = "GetXfers" ->
               [done(err) EXCEPT !.ret = GetXfersReturn(rev, resp, err, entry.keys)]
          [] op = "New" /\ stage = "hosts" ->
               IF err # NoErr THEN done(err)
               ELSE IF HostsUndecodable(resp.result)
               THEN done(ErrDecode("json.Unmarshal(rawResult1)"))
               ELSE LET h == HostsLoop(rev, resp.result.l, 1, Backends, ServerID)
                    IN  IF h.panic
                        THEN [done(NoErr) EXCEPT !.pc = "panic", !.stage = stage,
                                                 !.Backends = h.backends, !.ret = ret,
                                                 !.servers = resp.result.l]
                        ELSE [pc |-> GetEntry(rev, ck), stage |-> "status",
                              method |-> HostStatus, params |-> <<h.serverID>>,
                              Version |-> Version, Backends |-> h.backends,
                              servers |-> resp.result.l, ret |-> ret]
          [] op = "New" /\ stage = "status" ->
               IF err # NoErr THEN done(err)
               ELSE IF StatusUndecodable(resp.result)
               THEN done(ErrDecode("json.Unmarshal(rawResult2)"))
               ELSE LET s == VersionStep(rev, resp.result.l, Version)
                    IN  IF s.panic
                        THEN [done(NoErr) EXCEPT !.pc = "panic", !.stage = stage, !.ret = ret]
                        ELSE [done(s.err) EXCEPT !.Version = s.version]

\* Get returns (resp, err)
Return(resp, err, ck) ==
    LET k == AfterGet(resp, err, ck)
    IN  /\ pc' = k.pc
        /\ stage' = k.stage
        /\ method' = k.method
        /\ params' = k.params
        /\ Version' = k.Version
        /\ Backends' = k.Backends
        /\ serverList' = k.servers
        /\ ret' = k.ret
        /\ loop' = TRUE
        /\ response' = ZeroResponse
        /\ unclosed' = 0     \* defer resp.Body.Close(), of every frame of req

\* the process dies of a runtime panic inside Get
Panic ==
    /\ pc' = "panic"
    /\ unclosed' = 0         \* deferred calls run while the panic unwinds
    /\ UNCHANGED <<stage, method, params, Version, Backends, serverList, ret, loop,
                   response>>

\* how operation o ended, having returned error e: whether it was a Get
\* that returned the error of its own d.Do
Ended(o, e) ==
    IF o = "Get" /\ e = ErrTransport("d.Do") THEN "Get: d.Do failed" ELSE "other"

Begin(o) ==
    /\ pc = "idle"
    /\ op' = o
    /\ trace' = <<>>
    /\ loginBody' = Body("none", 0, "", JNone)
    /\ entry' = [after |-> Ended(op, ret.err), cookie |-> cookie,
                 keys |-> IF o = "GetXfers" THEN DOMAIN ret.xfers.m ELSE {}]
    /\ ret' = NoReturn
    /\ serverList' = <<>>
    /\ unclosed' = unclosed

\* the host ids followed from the client in hand to the one New builds
Followed == {"h1"}

\* the new client's map taken over from the client in hand
KeepBackends(prev) == prev

\* Backends of the Deluge newConfig builds, prev being the map of the client
\* in hand: Backends: make(map[string]Backend)
MakeBackends(prev) == EmptyMap

\* newConfig(config, LoginFlag(o)) up to its call of Login, or to its return
\* when it does not log in.  The caller hands it the Config it holds: the
\* first client is constructed from the Config as given, a later one from
\* the same Config value once an operation has returned.
newConfig(o) ==
    /\ pc \in {"init", "idle"}
    /\ rewrites < MaxRewrites
    /\ op' = o
    /\ rewrites' = IF ConfigAfter(rev, config) # config THEN rewrites + 1 ELSE rewrites
    /\ config' = ConfigAfter(rev, config)
    /\ url' = NormalizeURL(rev, config.URL)
    /\ auth' = BasicAuth(config.HTTPUser, config.HTTPPass)
    /\ first' = IF pc = "init" THEN [url |-> url', auth |-> auth'] ELSE first
    /\ cookie' = FALSE
    /\ id' = 0
    /\ Version' = ""
    /\ Backends' = MakeBackends(Backends)
    /\ trace' = <<>>
    /\ loginBody' = Body("none", 0, "", JNone)
    /\ ret' = NoReturn
    /\ entry' = [NoEntry EXCEPT !.keys = IF LoginFlag(o) THEN DOMAIN Backends \cap Followed
                                         ELSE {}]
    /\ loop' = TRUE
    /\ response' = ZeroResponse
    /\ method' = ""
    /\ params' = <<>>
    /\ serverList' = <<>>
    /\ unclosed' = 0
    /\ pc' = IF LoginFlag(o) THEN "login" ELSE "idle"
    /\ stage' = IF LoginFlag(o) THEN "login" ELSE ""
    /\ handed' = config
    /\ UNCHANGED rev

\* NewNoAuth: newConfig(config, false)
NewNoAuth ==
    /\ rev \in HasNoAuth
    /\ newConfig("NewNoAuth")

\* New: newConfig(config, true)
New == newConfig("New")

\* the caller calls Login
CallLogin ==
    /\ Begin("Login")
    /\ pc' = "login"
    /\ UNCHANGED <<rev, config, stage, loop, method, params, response, cookie, id,
                   Version, Backends, url, auth, handed, rewrites, first>>

\* the caller calls Get(m, ParamsOf(m))
CallGet ==
    /\ Begin("Get")
    /\ \E m \in CallMethods :
         /\ method' = m
         /\ params' = ParamsOf(m)
    /\ pc' = GetEntry(rev, cookie)
    /\ loop' = TRUE
    /\ response' = ZeroResponse
    /\ UNCHANGED <<rev, config, stage, cookie, id, Version, Backends,
                   url, auth, handed, rewrites, first>>

\* the caller calls GetXfers or GetXfersCompat
CallGetXfers ==
    /\ Begin("GetXfers")
    /\ method' = GetAllTorrents
    /\ params' = <<"", "">>
    /\ pc' = GetEntry(rev, cookie)
    /\ loop' = TRUE
    /\ response' = ZeroResponse
    /\ UNCHANGED <<rev, config, stage, cookie, id, Version, Backends,
                   url, auth, handed, rewrites, first>>

\* Login's round trip, called by the caller or by New; New goes on to pin the
\* version or to start setVersion
DoLogin ==
    /\ pc = "login"
    /\ \E r \in LoginResponses :
         LET e == LoginErr(rev, r)
             ck == LoginCookie(rev, r, cookie)
         IN  /\ trace' = Append(trace, RoundTrip("login", AuthLogin, <<config.Password>>, r))
             /\ loginBody' = r.body
             /\ id' = DelReqKeeps(id)
             /\ cookie' = ck
             /\ IF op = "Login" \/ e # NoErr
                THEN /\ pc' = "idle"
                     /\ stage' = ""
                     /\ ret' = Returned(ZeroResponse, e)
                     /\ UNCHANGED <<method, params, Version>>
                ELSE /\ Version' = config.Version
                     /\ IF Discovers(config.Version)
                        THEN /\ pc' = GetEntry(rev, ck)
                             /\ stage' = "hosts"
                             /\ method' = GeHosts
                             /\ params' = <<>>
                             /\ ret' = ret
                        ELSE /\ pc' = "idle"
                             /\ stage' = ""
                             /\ ret' = Returned(ZeroResponse, NoErr)
                             /\ UNCHANGED <<method, params>>
    /\ UNCHANGED <<rev, config, op, loop, response, Backends, serverList, entry,
                   url, auth, handed, rewrites, first, unclosed>>

\* Get's login of a session whose cookie flag is down
DoLazyLogin ==
    /\ pc = "lazy"
    /\ \E r \in LoginResponses :
         LET e == LoginErr(rev, r)
             ck == LoginCookie(rev, r, cookie)
         IN  /\ trace' = Append(trace, RoundTrip("lazy", AuthLogin, <<config.Password>>, r))
             /\ loginBody' = r.body
             /\ id' = DelReqKeeps(id)
             /\ cookie' = ck
             /\ IF e # NoErr
                THEN Return(ZeroResponse, e, ck)
                ELSE /\ pc' = "req"
                     /\ UNCHANGED <<stage, method, params, Version, Backends, serverList,
                                    ret, loop, response, unclosed>>
    /\ UNCHANGED <<rev, config, op, entry, url, auth, handed, rewrites, first>>

\* Get's / req's own round trip and the decoding of its response
DoReq ==
    /\ pc = "req"
    /\ \E r \in Responses(op, method) :
         LET d == Decode(rev, r.body)
         IN  /\ trace' = Append(trace, RoundTrip(IF loop THEN "rpc" ELSE "retry",
                                                 method, params, r))
             /\ loginBody' = loginBody
             /\ id' = DelReqKeeps(id)
             /\ IF r.kind = "fail"
                THEN /\ cookie' = CookieAfterDoFails(rev, cookie)
                     /\ Return(FailedResponse(rev), ErrTransport("d.Do"),
                               CookieAfterDoFails(rev, cookie))
                ELSE /\ cookie' = cookie
                     /\ CASE d.err # NoErr -> Return(FailedResponse(rev), d.err, cookie)
                          [] d.err = NoErr /\ d.response.nil -> Panic
                          [] d.err = NoErr /\ ~d.response.nil /\ d.response.code # 0 ->
                               IF AfterErrorCode(rev) = "relogin"
                               THEN /\ pc' = "relogin"
                                    /\ response' = d.response
                                    \* this frame's Close waits for its return
                                    /\ unclosed' = unclosed + 1
                                    /\ UNCHANGED <<stage, method, params, Version,
                                                   Backends, serverList, ret, loop>>
                               ELSE Return(d.response,
                                           ErrDelugeError(rev, d.response.msg), cookie)
                          [] OTHER -> Return(d.response, NoErr, cookie)
    /\ UNCHANGED <<rev, config, op, entry, url, auth, handed, rewrites, first>>

\* req's LoginContext after a response whose error code is not 0
DoRelogin ==
    /\ pc = "relogin"
    /\ \E r \in LoginResponses :
         LET e == LoginErr(rev, r)
             ck == LoginCookie(rev, r, cookie)
         IN  /\ trace' = Append(trace, RoundTrip(IF loop THEN "relogin" ELSE "relogin2",
                                                 AuthLogin, <<config.Password>>, r))
             /\ loginBody' = r.body
             /\ id' = DelReqKeeps(id)
             /\ cookie' = ck
             /\ CASE e # NoErr ->
                       Return(ReloginFailed(rev, response, e).resp,
                              ReloginFailed(rev, response, e).err, ck)
                  [] e = NoErr /\ AfterRelogin(loop) = "retry" ->
                       /\ pc' = "req"
                       /\ loop' = FALSE
                       /\ UNCHANGED <<stage, method, params, Version, Backends,
                                      serverList, ret, response, unclosed>>
                  [] OTHER -> Return(response, ErrDelugeError(rev, response.msg), ck)
    /\ UNCHANGED <<rev, config, op, entry, url, auth, handed, rewrites, first>>

Next ==
    \/ NewNoAuth
    \/ New
    \/ CallLogin
    \/ CallGet
    \/ CallGetXfers
    \/ DoLogin
    \/ DoLazyLogin
    \/ DoReq
    \/ DoRelogin

Spec == Init /\ [][Next]_vars

(***************************************************************************)
(* Reading the trace.                                                      *)
(***************************************************************************)
Last(q) == q[Len(q)]

IsLogin(e) == e.method = AuthLogin

\* a login round trip that got HTTP 200
LoginOK(e) == IsLogin(e) /\ e.out.kind = "http" /\ e.out.status = 200

\* a round trip whose envelope carries a non-zero error code
ErrorCode(e) == ~IsLogin(e) /\ e.out.form = "env" /\ e.out.code # 0

\* a round trip whose envelope carries error code 0
CodeZero(e) == ~IsLogin(e) /\ e.out.form = "env" /\ e.out.code = 0

\* the public Get has returned
CallReturned == op = "Get" /\ pc = "idle"

(***************************************************************************)
(* C1.  A Call whose first response has error.code # 0 sends exactly one   *)
(* login and then exactly one retry of the same method and params, and     *)
(* nothing further, whatever the retry's outcome.  Stated for the revision *)
(* that retries, and for a daemon that answers every login with 200.       *)
(***************************************************************************)
C1_OneLoginOneRetry ==
    ( /\ rev \in HasRetry
      /\ CallReturned
      /\ trace # <<>>
      /\ ErrorCode(trace[1])
      /\ \A i \in DOMAIN trace : IsLogin(trace[i]) => LoginOK(trace[i]) )
    => /\ Len(trace) = 3
       /\ IsLogin(trace[2])
       /\ trace[3].method = trace[1].method
       /\ trace[3].params = trace[1].params

(***************************************************************************)
(* C2.  First response with error.code # 0, re-login answered 200, retry   *)
(* answered with error.code = 0: Call returns the retry's decoded envelope *)
(* and a nil error.                                                        *)
(***************************************************************************)
C2_RetryResultReturned ==
    \A i \in DOMAIN trace :
        ( /\ CallReturned
          /\ i + 2 <= Len(trace)
          /\ trace[i].role = "rpc" /\ ErrorCode(trace[i])
          /\ LoginOK(trace[i + 1])
          /\ trace[i + 2].role = "retry" /\ CodeZero(trace[i + 2]) )
        => /\ ret.err = NoErr
           /\ ~ret.resp.nil
           /\ ret.resp.code = 0
           /\ ret.resp.msg = ""
           /\ ret.resp.result.s = trace[i + 2].out.res
           /\ Len(trace) = i + 2

C2_Witness ==
    /\ CallReturned
    /\ Len(trace) = 3
    /\ ErrorCode(trace[1]) /\ LoginOK(trace[2]) /\ CodeZero(trace[3])
    /\ ret.err = NoErr
    /\ ret.resp.result = JStr("r2")

C5_LoginByStatusThenNoLogin ==
    /\ (trace # <<>> /\ LoginOK(Last(trace)))
       => /\ pc \in {"idle", "req"}
          /\ (pc = "idle" /\ Last(trace).role = "login") => ret.err = NoErr
    /\ rev \in HasCookie
       => /\ (trace # <<>> /\ LoginOK(Last(trace))) => cookie
          /\ (op = "Get" /\ entry.cookie) => \A i \in DOMAIN trace : ~IsLogin(trace[i])
          /\ op = "Get" => \A i \in DOMAIN trace : IsLogin(trace[i]) => i = 1
          /\ (CallReturned /\ ret.err = NoErr) => cookie

C5_Witness ==
    /\ rev \in HasCookie
    /\ CallReturned
    /\ Len(trace) = 2
    /\ LoginOK(trace[1])
    /\ loginBody = Env(0, "", JBool("false"))
    /\ CodeZero(trace[2])
    /\ ret.err = NoErr
    /\ cookie

(***************************************************************************)
(* C6.  After a Login answered with a status other than 200, Login returns *)
(* an error wrapping ErrAuthFailed and the session is unauthenticated,     *)
(* whatever the session was before.  (Revisions with the cookie flag.)     *)
(***************************************************************************)
C6_FailedLoginUnauthenticated ==
    ( /\ rev \in HasCookie
      /\ op = "Login" /\ pc = "idle"
      /\ trace # <<>>
      /\ Last(trace).out.kind = "http" /\ Last(trace).out.status # 200 )
    => /\ ret.err.wraps = "ErrAuthFailed"
       /\ ~cookie

C8_IdsIncrease ==
    \A i \in DOMAIN trace : i > 1 => trace[i].id > trace[i - 1].id

(***************************************************************************)
(* C9.  A single Call sends at most one initial login, one RPC request,    *)
(* one re-login and one retry, and then returns.                           *)
(***************************************************************************)
RoundTrips(roles) == Cardinality({i \in DOMAIN trace : trace[i].role \in roles})

C9_AtMostOneOfEach ==
    op = "Get"
    => /\ RoundTrips({"lazy"}) <= 1
       /\ RoundTrips({"rpc"}) <= 1
       /\ RoundTrips({"relogin", "relogin2"}) <= 1
       /\ RoundTrips({"retry"}) <= 1

(***************************************************************************)
(* C10.  Version discovery fails with ErrInvalidVersion exactly when the   *)
(* host-status result list has fewer than 3 elements or its last element   *)
(* is not a string; otherwise it succeeds and Version is the last element. *)
(* (Revisions that declare ErrInvalidVersion.)                             *)
(***************************************************************************)
\* New has returned after a host-status call that Get returned without error
StatusReturned ==
    /\ op = "New" /\ pc = "idle"
    /\ trace # <<>>
    /\ Last(trace).method = HostStatus
    /\ CodeZero(Last(trace))

HostTuple(t) ==
    /\ Len(t.l) = 4
    /\ t.l[1].t = "str" /\ t.l[2].t = "str" /\ t.l[3].t = "num" /\ t.l[4].t = "str"

\* the hosts-list step of New's discovery is over
HostsStepDone ==
    /\ op = "New"
    /\ stage = "status" \/ (\E i \in DOMAIN trace : trace[i].method = HostStatus)

C12_NewNoAuthSendsNothing ==
    op = "NewNoAuth"
    => /\ pc = "idle"
       /\ trace = <<>>
       /\ ~cookie
       /\ Version = ""
       /\ Backends = EmptyMap
       /\ ret.err = NoErr

C12_Witness ==
    /\ op = "NewNoAuth"
    /\ pc = "idle"
    /\ config.Version = "1.3.15"
    /\ auth # <<>>
    /\ trace = <<>>
    /\ Version = ""
    /\ Backends = EmptyMap

(***************************************************************************)
(* C13.  New sends login first, get-hosts after it and get-host-status     *)
(* after get-hosts.  When the login fails New returns its error and has    *)
(* sent nothing else; when the Config pins a version New sends the login   *)
(* alone and on success Version is the pinned version; discovery requests  *)
(* are sent only when the pinned version is empty.                         *)
(***************************************************************************)
\* a request of the version discovery
Discovery(e) == e.method \in {GeHosts, HostStatus}

C13_NewOrder ==
    op = "New"
    => /\ trace = <<>> => pc = "login"
       /\ trace # <<>> => trace[1].role = "login"
       /\ \A i \in DOMAIN trace :
            /\ ~IsLogin(trace[i]) => Discovery(trace[i])
            /\ trace[i].method = GeHosts
               => \A j \in 1..i : ~(trace[j].method = HostStatus)
            /\ trace[i].method = HostStatus
               => \E j \in 1..i : trace[j].method = GeHosts /\ CodeZero(trace[j])
       /\ (trace # <<>> /\ ~LoginOK(trace[1]))
          => /\ pc = "idle"
             /\ Len(trace) = 1
             /\ ret.err = IF trace[1].out.kind = "fail"
                          THEN ErrTransport("d.Do(req)")
                          ELSE ErrAuthFailed(rev)
             /\ Version = ""
       /\ config.Version # ""
          => /\ Len(trace) <= 1
             /\ (trace # <<>> /\ LoginOK(trace[1]))
                => pc = "idle" /\ ret.err = NoErr /\ Version = config.Version
       /\ (\E i \in DOMAIN trace : Discovery(trace[i])) => config.Version = ""

C13_Witness ==
    /\ op = "New" /\ pc = "idle"
    /\ config.Version = ""
    /\ Len(trace) = 3
    /\ LoginOK(trace[1])
    /\ trace[2].method = GeHosts /\ CodeZero(trace[2])
    /\ trace[3].method = HostStatus /\ CodeZero(trace[3])
    /\ ret.err = NoErr
    /\ Version = "2.0.3"

(***************************************************************************)
(* C14.  The basic-auth value is fixed at construction.  When HTTPUser and *)
(* HTTPPass of the Config handed to the construction are both empty, no    *)
(* request of the client carries an Authorization header; when either is   *)
(* not, every request (login, call, re-login and retry) carries the one    *)
(* value "Basic " + base64(user + ":" + pass).                             *)
(***************************************************************************)
C14_BasicAuthOnEveryRequest ==
    LET user == handed.HTTPUser
        pass == handed.HTTPPass
    IN  \A i \in DOMAIN trace :
            IF user = <<>> /\ pass = <<>>
            THEN trace[i].authorization = <<>>
            ELSE trace[i].authorization =
                   <<BasicPrefix \o EncodeToString(user \o <<":">> \o pass)>>

C14_Witness ==
    /\ rev \in HasRetry
    /\ CallReturned
    /\ handed.HTTPUser = <<>> /\ handed.HTTPPass = <<"p">>
    /\ Len(trace) = 4
    /\ trace[2].role = "relogin" /\ trace[3].role = "retry"
    /\ \A i \in DOMAIN trace :
         trace[i].authorization = <<BasicPrefix \o <<"O", "n", "A", "=">>>>

(***************************************************************************)
(* C15.  Construction leaves the Config it is given unchanged, so that a   *)
(* client constructed later from the same Config value has the request URL *)
(* and the Authorization value of the first one.  (Stated for deluge.go;   *)
(* part_002 and part_003 treat the Config alike, config.go only reads it.) *)
(***************************************************************************)
C15_ConfigUnchanged ==
    (rev = "deluge" /\ pc # "init")
    => /\ config = handed
       /\ url = first.url
       /\ auth = first.auth

(***************************************************************************)
(* C16.  URL normalization appends "/json" exactly once: for every         *)
(* configured URL the request URL ends in "/json" but neither in           *)
(* "/json/json" nor in "//json", and normalizing the request URL again     *)
(* returns it unchanged.  (Stated for config.go, whose TrimSuffix calls    *)
(* deluge.go and part_003 share; part_002 appends without trimming.)       *)
(***************************************************************************)
C16_JsonSuffixOnce ==
    (rev = "config" /\ pc # "init")
    => /\ HasSuffix(url, JsonSuffix)
       /\ ~HasSuffix(url, JsonSuffix \o JsonSuffix)
       /\ ~HasSuffix(url, Slash \o JsonSuffix)
       /\ NormalizeURL(rev, url) = url

(***************************************************************************)
(* C17.  A GetXfers / GetXfersCompat call that succeeds returns a map      *)
(* whose keys are exactly the torrent ids of the result that this call's   *)
(* own request was answered with, as many as the result has torrents,      *)
(* whatever the call before it returned.                                   *)
(***************************************************************************)
\* GetXfers has returned
XfersReturned == op = "GetXfers" /\ pc = "idle"

C17_XfersFromOwnResponse ==
    (XfersReturned /\ ret.err = NoErr)
    => LET torrents == ret.resp.result.l
       IN  /\ CodeZero(Last(trace))
           /\ Last(trace).method = GetAllTorrents
           /\ ~ret.xfers.nil
           /\ DOMAIN ret.xfers.m = {torrents[i].s : i \in DOMAIN torrents}
           /\ Cardinality(DOMAIN ret.xfers.m) = Len(torrents)

C17_Witness ==
    /\ XfersReturned
    /\ entry.keys = {"abc123", "def456"}
    /\ ret.resp.result = JObj(<<JMember("def456", JObj(<<>>))>>)
    /\ ret.err = NoErr
    /\ DOMAIN ret.xfers.m = {"def456"}

(***************************************************************************)
(* C18.  A torrent whose "move_on_completed" arrives as one of the strings *)
(* "1", "true", "TRUE", "Yes", "active" decodes to true; as "0", "false",  *)
(* "" or a JSON false, to false; as any other value that is no JSON        *)
(* boolean, to false; and the field never makes GetXfers / GetXfersCompat  *)
(* return a decoding error.                                                *)
(***************************************************************************)
C18_MoveOnCompletedCoerced ==
    ( /\ XfersReturned
      /\ CodeZero(Last(trace))
      /\ ret.resp.result.t = "obj" )
    => \A i \in DOMAIN ret.resp.result.l :
         LET torrent == ret.resp.result.l[i]
             v == Field(torrent.l[1].l, "move_on_completed")
         IN  (torrent.l[1].t = "obj" /\ v.t # "none")
             => /\ ret.err = NoErr
                /\ ret.xfers.m[torrent.s].MoveOnCompleted
                     = \/ v = JBool("true")
                       \/ v.t = "str" /\ v.s \in {"1", "true", "TRUE", "Yes", "active"}

\* C19: when an operation returns, the body of every response it received
\* has been read or discarded to its end and has been closed
C19_BodiesReleased ==
    (pc = "idle" /\ op \in {"New", "Login", "Get", "GetXfers"})
    => /\ unclosed = 0
       /\ \A i \in DOMAIN trace : trace[i].read \in {"all", "none"}

(***************************************************************************)
(* C20.  Backends holds the hosts of the discovery of its own client and   *)
(* nothing else.  setVersion only adds to the map; it runs once per        *)
(* client, from newConfig, on the map newConfig has just made, so a host   *)
(* an earlier discovery listed can only be in the map of an earlier        *)
(* client.                                                                 *)
(***************************************************************************)
\* the hostIDs of the hosts list setVersion decoded
HostIDs == {serverList[i].l[1].s : i \in DOMAIN serverList}

\* C20: once the hosts loop of a discovery has run over a list whose hostIDs
\* are strings, the keys of Backends are the hostIDs of that list, and a
\* host the client in hand before had listed is in the map only if the list
\* names it
C20_BackendsOverwritten ==
    ( /\ HostsStepDone
      /\ \A i \in DOMAIN serverList : serverList[i].l[1].t = "str" )
    => /\ DOMAIN Backends = HostIDs
       /\ \A k \in entry.keys : k \notin HostIDs => k \notin DOMAIN Backends

C20_Witness ==
    /\ op = "New" /\ pc = "idle" /\ ret.err = NoErr
    /\ "h1" \in entry.keys
    /\ serverList = <<JList(<<JStr("h2"), JStr("10.0.0.2"), JNum("58846.5"), JStr("udp")>>)>>
    /\ DOMAIN Backends = {"h2"}
    /\ Version # ""

(***************************************************************************)
(* C21.  A host tuple of the wrong shape makes discovery return            *)
(* ErrInvalidVersion and never makes the process panic.  Stated for the    *)
(* newest revision, whose loop asserts every type with the comma-ok form.  *)
(***************************************************************************)
\* a tuple with fewer than 4 elements, or whose address or protocol is no
\* string, or whose port is no number
BadTuple(t) ==
    \/ Len(t.l) < 4
    \/ ~(t.l[2].t = "str" /\ t.l[3].t = "num" /\ t.l[4].t = "str")

\* C21: when the hosts list New's discovery decoded holds a tuple of the
\* wrong shape, the process does not panic and New returns ErrInvalidVersion
C21_TuplesValidated ==
    ( /\ rev = "config"
      /\ op = "New"
      /\ \E i \in DOMAIN serverList : BadTuple(serverList[i]) )
    => /\ pc # "panic"
       /\ pc = "idle" => ret.err = ErrInvalidVersion(rev)

(***************************************************************************)
(* C22.  An operation that fails by a transport error (a timeout and a     *)
(* cancellation are errors of d.Do as well) leaves Version and Backends as *)
(* they were when it began.  New is the one operation that writes them; it *)
(* begins with the Deluge newConfig has just built: Version "", Backends   *)
(* an empty map, and it returns that Deluge along with the error.          *)
(***************************************************************************)
\* the operation in hand has returned the error of a d.Do
TransportFailed == pc = "idle" /\ ret.err.kind = "transport"

\* C22: when New has failed by a transport error, the Deluge it returns has
\* the Version and the Backends it was built with, also when the error is
\* that of the host-status call that follows a hosts list
C22_NoPartialState ==
    (op = "New" /\ TransportFailed)
    => /\ Version = ""
       /\ Backends = EmptyMap

(***************************************************************************)
(* C23.  Whatever body answers a Get, Get returns a Response that is not   *)
(* nil or an error that is not nil, and the process does not panic.        *)
(***************************************************************************)
\* C23: a Get in progress has not panicked, and a Get that has returned has
\* returned a non-nil *Response or a non-nil error
C23_GetNeverCrashes ==
    op = "Get"
    => /\ pc # "panic"
       /\ pc = "idle" => (~ret.resp.nil \/ ret.err # NoErr)

(***************************************************************************)
(* C24.  When the login req sends after a response with a non-zero error   *)
(* code fails, req sends nothing more and Get returns the error of that    *)
(* login.  Stated for the revision that logs in again.                     *)
(***************************************************************************)
\* round trip e is a login of req that failed
ReloginFailure(e) == e.role \in {"relogin", "relogin2"} /\ ~LoginOK(e)

\* C24: when a Get has returned after a login of req that failed, that login
\* is the last round trip, the error is ErrAuthFailed for a status other
\* than 200 and the error of d.Do for a transport failure, and the
\* *Response is nil
C24_ReloginFailureReturned ==
    (rev \in HasRetry /\ CallReturned)
    => \A i \in DOMAIN trace :
         ReloginFailure(trace[i])
         => /\ i = Len(trace)
            /\ ret.err = IF trace[i].out.kind = "fail"
                         THEN ErrTransport("d.Do(req)")
                         ELSE ErrAuthFailed(rev)
            /\ ret.resp.nil

C24_Witness ==
    /\ rev \in HasRetry /\ CallReturned
    /\ Len(trace) = 2
    /\ ErrorCode(trace[1])
    /\ trace[2].role = "relogin"
    /\ trace[2].out.status = 401
    /\ ret.err = ErrAuthFailed(rev)

(***************************************************************************)
(* C25.  A hosts list without hosts: the loop does not run, Backends stays *)
(* empty, web.get_host_status is called with the hostID "", and New        *)
(* succeeds exactly when that call returns a status list to take the       *)
(* version from.                                                           *)
(***************************************************************************)
\* the hosts step of New's discovery is over and has decoded a list without
\* hosts
NoHosts == HostsStepDone /\ serverList = <<>>

\* C25: after a hosts list without hosts Backends is empty, every
\* host-status request carries "" as its one parameter, and New returns nil
\* exactly when the host-status call returned a list of at least 3 elements
\* whose last is a string, which is then Version
C25_EmptyHostsList ==
    NoHosts
    => /\ Backends = EmptyMap
       /\ stage = "status" => (method = HostStatus /\ params = <<"">>)
       /\ \A i \in DOMAIN trace :
            trace[i].method = HostStatus => trace[i].params = <<"">>
       /\ pc = "idle"
          => LET l == ret.resp.result.l
                 good == /\ StatusReturned
                         /\ ret.resp.result.t = "list"
                         /\ Len(l) >= 3
                         /\ l[Len(l)].t = "str"
             IN  /\ ret.err = NoErr <=> good
                 /\ good => Version = l[Len(l)].s

C25_Witness ==
    /\ NoHosts
    /\ pc = "idle"
    /\ Backends = EmptyMap
    /\ Last(trace).method = HostStatus
    /\ Last(trace).params = <<"">>
    /\ ret.err = NoErr
    /\ Version = "2.0.3"

====
